---- MODULE Spec2Model ----
(***************************************************************************)
(* A model of prjc/app.py of ilmaotsija: the /search, /weather and         *)
(* /forecast handlers, the two TTL caches they share, and the helper       *)
(* functions validate_location, normalize_location, validate_country,      *)
(* get_country_name and validate_weather_data.                             *)
(*                                                                         *)
(* Strings are sequences of one-character strings, so that strip, lower,   *)
(* upper, split, the regular expressions and the cache keys are computed   *)
(* character by character as the Python code computes them.                *)
(***************************************************************************)
EXTENDS Integers, Sequences, FiniteSets, TLC

(***************************************************************************)
(* Characters and the str methods the code uses.                           *)
(***************************************************************************)

\* The characters of the model, in ascending code-point order.
Chars ==
  << "\n", " ", ",", "-",
     "0", "1", "2", "3", "4", "5", "6", "7", "8", "9",
     "A", "B", "C", "D", "E", "F", "G", "H", "I", "J", "K", "L", "M",
     "N", "O", "P", "Q", "R", "S", "T", "U", "V", "W", "X", "Y", "Z",
     "_",
     "a", "b", "c", "d", "e", "f", "g", "h", "i", "j", "k", "l", "m",
     "n", "o", "p", "q", "r", "s", "t", "u", "v", "w", "x", "y", "z",
     "|" >>

CodePoints == [c \in {Chars[i] : i \in DOMAIN Chars} |-> CHOOSE i \in DOMAIN Chars : Chars[i] = c]

\* ord(c), up to the gaps between the characters of the model
Ord(c) == CodePoints[c]

IsUpper(c) == Ord(c) >= Ord("A") /\ Ord(c) <= Ord("Z")

IsLower(c) == Ord(c) >= Ord("a") /\ Ord(c) <= Ord("z")

IsDigit(c) == Ord(c) >= Ord("0") /\ Ord(c) <= Ord("9")

\* str.isspace for one character: the space and the newline of the model
IsSpace(c) == c \in {" ", "\n"}

\* the class \w of the re module
IsWord(c) == IsUpper(c) \/ IsLower(c) \/ IsDigit(c) \/ c = "_"

ToLower(c) == IF IsUpper(c) THEN Chars[Ord(c) + (Ord("a") - Ord("A"))] ELSE c

ToUpper(c) == IF IsLower(c) THEN Chars[Ord(c) - (Ord("a") - Ord("A"))] ELSE c

\* str.lower
Lower(s) == [i \in 1..Len(s) |-> ToLower(s[i])]

\* str.upper
Upper(s) == [i \in 1..Len(s) |-> ToUpper(s[i])]

RECURSIVE LStripOf(_, _)
LStripOf(s, cs) ==
  IF s # << >> /\ Head(s) \in cs THEN LStripOf(Tail(s), cs) ELSE s

RECURSIVE RStripOf(_, _)
RStripOf(s, cs) ==
  IF s # << >> /\ s[Len(s)] \in cs THEN RStripOf(SubSeq(s, 1, Len(s) - 1), cs) ELSE s

\* str.strip(): leading and trailing whitespace removed
Strip(s) ==
  LET space == {c \in DOMAIN CodePoints : IsSpace(c)}
  IN  RStripOf(LStripOf(s, space), space)

\* the hyphens at the ends left in place
StripNoHyphens(s) == s

\* str.strip('-')
StripHyphens(s) == RStripOf(LStripOf(s, {"-"}), {"-"})

\* str.split(','): the pieces between the commas, at least one piece
RECURSIVE SplitComma(_)
SplitComma(s) ==
  IF \A i \in 1..Len(s) : s[i] # ","
  THEN << s >>
  ELSE LET k == CHOOSE i \in 1..Len(s) :
                  s[i] = "," /\ \A j \in 1..(i - 1) : s[j] # ","
       IN  << SubSeq(s, 1, k - 1) >> \o SplitComma(SubSeq(s, k + 1, Len(s)))

\* needle in haystack
Contains(hay, needle) ==
  \E i \in 0..(Len(hay) - Len(needle)) :
    SubSeq(hay, i + 1, i + Len(needle)) = needle

\* str.replace(a, b) for single characters
ReplaceChar(s, a, b) == [i \in 1..Len(s) |-> IF s[i] = a THEN b ELSE s[i]]

\* re.sub of a run of characters of the class cs by the single character r
RECURSIVE CollapseRuns(_, _, _)
CollapseRuns(s, cs, r) ==
  IF s = << >> THEN << >>
  ELSE IF Head(s) \in cs
       THEN << r >> \o CollapseRuns(LStripOf(s, cs), cs, r)
       ELSE << Head(s) >> \o CollapseRuns(Tail(s), cs, r)

\* str(n) for an int
RECURSIVE Digits(_)
Digits(n) ==
  IF n < 10 THEN << Chars[Ord("0") + n] >>
  ELSE Digits(n \div 10) \o << Chars[Ord("0") + (n % 10)] >>

IntToStr(n) == IF n < 0 THEN << "-" >> \o Digits(0 - n) ELSE Digits(n)

\* s1 < s2 in Python's string order (code points, a proper prefix is smaller)
RECURSIVE StrLess(_, _)
StrLess(s1, s2) ==
  IF s2 = << >> THEN FALSE
  ELSE IF s1 = << >> THEN TRUE
  ELSE IF Head(s1) # Head(s2) THEN Ord(Head(s1)) < Ord(Head(s2))
  ELSE StrLess(Tail(s1), Tail(s2))

(***************************************************************************)
(* pycountry, reduced to a few rows of its table.                          *)
(***************************************************************************)

S_EE == << "E", "E" >>
S_FI == << "F", "I" >>
S_US == << "U", "S" >>
S_ZZ == << "Z", "Z" >>
S_XX == << "X", "X" >>
S_Estonia == << "E", "s", "t", "o", "n", "i", "a" >>
S_Finland == << "F", "i", "n", "l", "a", "n", "d" >>
S_UnitedStates == << "U", "n", "i", "t", "e", "d", " ", "S", "t", "a", "t", "e", "s" >>
S_Unknown == << "U", "n", "k", "n", "o", "w", "n" >>

\* alpha_2 -> name
CountryTable == [x \in {S_EE, S_FI, S_US} |->
  IF x = S_EE THEN S_Estonia ELSE IF x = S_FI THEN S_Finland ELSE S_UnitedStates]

validate_country(country) ==
  /\ country # << >>
  /\ country \in DOMAIN CountryTable

get_country_name(country_code) ==
  IF country_code = S_XX THEN S_Unknown
  ELSE IF country_code \in DOMAIN CountryTable THEN CountryTable[country_code]
  ELSE country_code

\* pycountry.countries.search_fuzzy(name)[0].alpha_2; "found" is FALSE where
\* search_fuzzy raises LookupError
search_fuzzy(name) ==
  IF \E x \in DOMAIN CountryTable : Lower(CountryTable[x]) = Lower(name)
  THEN [found |-> TRUE,
        alpha_2 |-> CHOOSE x \in DOMAIN CountryTable : Lower(CountryTable[x]) = Lower(name)]
  ELSE [found |-> FALSE, alpha_2 |-> << >>]

(***************************************************************************)
(* normalize_location and validate_location                                *)
(***************************************************************************)

S_linn == << "l", "i", "n", "n" >>
S_unknown_city == << "u", "n", "k", "n", "o", "w", "n", " ", "c", "i", "t", "y" >>

\* "linn" matches at position i of s between two word boundaries
LinnAt(s, i) ==
  /\ i + 3 <= Len(s)
  /\ Lower(SubSeq(s, i, i + 3)) = S_linn
  /\ (i = 1 \/ ~IsWord(s[i - 1]))
  /\ (i + 3 = Len(s) \/ ~IsWord(s[i + 4]))

\* re.sub(r'\blinn\b', '', s, flags=re.IGNORECASE), scanning from position i
RECURSIVE RemoveLinnFrom(_, _)
RemoveLinnFrom(s, i) ==
  IF i > Len(s) THEN << >>
  ELSE IF LinnAt(s, i) THEN RemoveLinnFrom(s, i + 4)
  ELSE << s[i] >> \o RemoveLinnFrom(s, i + 1)

\* only the first match removed
RemoveLinnOnce(s) ==
  IF \E i \in 1..Len(s) : LinnAt(s, i)
  THEN LET k == CHOOSE i \in 1..Len(s) : LinnAt(s, i) /\ \A j \in 1..(i - 1) : ~LinnAt(s, j)
       IN  SubSeq(s, 1, k - 1) \o SubSeq(s, k + 4, Len(s))
  ELSE s

RemoveLinn(s) == RemoveLinnFrom(s, 1)

\* The result of normalize_location: ok = FALSE where the code returns None.
normalize_location(location) ==
  LET parts == SplitComma(location)
      city0 == Strip(parts[1])
      country_code == Upper(Strip(parts[2]))
      city1 == Strip(RemoveLinn(city0))
      city2 == Strip(CollapseRuns(city1, {c \in DOMAIN CodePoints : IsSpace(c)}, " "))
      city3 == ReplaceChar(city2, " ", "-")
      city == StripHyphens(CollapseRuns(city3, {"-"}, "-"))
  IN  IF location = << >> THEN [ok |-> FALSE, key |-> << >>]
      ELSE IF Len(parts) # 2 THEN [ok |-> FALSE, key |-> << >>]
      ELSE IF ~validate_country(country_code) THEN [ok |-> FALSE, key |-> << >>]
      ELSE IF Len(city) < 2 THEN [ok |-> FALSE, key |-> << >>]
      ELSE [ok |-> TRUE, key |-> city \o << "," >> \o country_code]

\* re.match(r'^[^,]+,[A-Z]{2}$', location): one or more characters other
\* than a comma, a comma, and two upper-case letters; without re.MULTILINE,
\* $ matches at the end of the string and also just before a newline that
\* ends it
MatchesLocationPattern(location) ==
  LET Shape(s) == /\ Len(s) >= 4
                  /\ s[Len(s) - 2] = ","
                  /\ IsUpper(s[Len(s) - 1])
                  /\ IsUpper(s[Len(s)])
                  /\ \A i \in 1..(Len(s) - 3) : s[i] # ","
      n == Len(location)
  IN  \/ Shape(location)
      \/ /\ n >= 1
         /\ location[n] = "\n"
         /\ Shape(SubSeq(location, 1, n - 1))

validate_location(location) ==
  IF location = << >> THEN FALSE
  ELSE IF Contains(Lower(location), S_unknown_city) THEN FALSE
  ELSE IF ~MatchesLocationPattern(location) THEN FALSE
  ELSE LET parts == SplitComma(location)
           city == Strip(parts[1])
           country_code == Strip(parts[2])
       IN  IF Len(city) < 2 THEN FALSE
           ELSE validate_country(country_code)

(***************************************************************************)
(* cachetools.TTLCache as the handlers use it.  A cache is the sequence of *)
(* its entries, oldest insertion first; an entry is absent once            *)
(* timer() < expires fails.                                                *)
(***************************************************************************)

\* TTLCache(maxsize=1000, ttl=3600) and TTLCache(maxsize=500, ttl=3600)
SEARCH_MAXSIZE == 1000
FORECAST_MAXSIZE == 500
TTL == 3600

\* the entries of cache that are alive at time and stored under another key,
\* in order
RECURSIVE SelectEntries(_, _, _)
SelectEntries(cache, key, time) ==
  IF cache = << >> THEN << >>
  ELSE IF Head(cache).key = key \/ ~(time < Head(cache).expires)
       THEN SelectEntries(Tail(cache), key, time)
       ELSE << Head(cache) >> \o SelectEntries(Tail(cache), key, time)

\* cache.get(key): << >> for None, << value >> for a live entry
CacheGet(cache, key, time) ==
  IF \E i \in 1..Len(cache) : cache[i].key = key /\ time < cache[i].expires
  THEN LET i == CHOOSE j \in 1..Len(cache) : cache[j].key = key /\ time < cache[j].expires
       IN  << cache[i].value >>
  ELSE << >>

\* cache[key] = value: expired entries are dropped, the oldest entries are
\* evicted while the cache is full, and the entry is linked last with a new
\* expiry time
CachePut(cache, key, value, time, maxsize) ==
  LET live == SelectEntries(cache, key, time)
      room == maxsize - 1
      kept == IF Len(live) > room
              THEN SubSeq(live, Len(live) - room + 1, Len(live))
              ELSE live
  IN  Append(kept, [key |-> key, value |-> value, expires |-> time + TTL])

(***************************************************************************)
(* The geocoding entries of /search: filter, resolve, deduplicate, sort,   *)
(* paginate.                                                               *)
(***************************************************************************)

\* FALLBACK_CITIES, the rows the model's country table has
S_Tallinn == << "T", "a", "l", "l", "i", "n", "n" >>
S_NewYork == << "N", "e", "w", " ", "Y", "o", "r", "k" >>
FALLBACK_CITIES == [x \in {S_EE, S_US} |-> IF x = S_EE THEN S_Tallinn ELSE S_NewYork]

PAGE_SIZE == 100

\* the country code of a raw entry: resolved through search_fuzzy when it is
\* longer than two characters; ok = FALSE where the entry is skipped
ResolveCountry(loc) ==
  IF Len(loc.country) > 2
  THEN LET r == search_fuzzy(loc.country) IN [ok |-> r.found, code |-> r.alpha_2]
  ELSE [ok |-> TRUE, code |-> loc.country]

\* a dedup key that tells entries apart by their region label as well
DedupKeyWithState(loc, country_code) ==
  << Lower(loc.name), country_code, loc.lat, loc.lon, loc.state >>

DedupKey(loc, country_code) == << Lower(loc.name), country_code, loc.lat, loc.lon >>

MakeResult(loc, country_code) ==
  [name |-> loc.name, country |-> country_code, lat |-> loc.lat, lon |-> loc.lon,
   state |-> loc.state]

\* one pass of "for loc in data" over data, starting from the set seen and the
\* list results; gives the set and the list after the loop
RECURSIVE MapLocations(_, _, _)
MapLocations(data, seen, results) ==
  IF data = << >> THEN [seen |-> seen, results |-> results]
  ELSE LET loc == Head(data)
           cc == ResolveCountry(loc)
           key == DedupKey(loc, cc.code)
       IN  IF loc.name = << >> \/ loc.country = << >> THEN MapLocations(Tail(data), seen, results)
           ELSE IF ~cc.ok THEN MapLocations(Tail(data), seen, results)
           ELSE IF key \in seen THEN MapLocations(Tail(data), seen, results)
           ELSE MapLocations(Tail(data), seen \cup {key},
                             Append(results, MakeResult(loc, cc.code)))

\* list.sort(key=lambda x: x['name']): stable, ascending.  An element goes
\* to the place after the elements that come before it: those with a smaller
\* name, and those with the same name that stand earlier in the list.
SortByName(s) ==
  LET n == Len(s)
      Before(i, j) == \/ StrLess(s[i].name, s[j].name)
                      \/ i < j /\ ~StrLess(s[j].name, s[i].name)
      place == SubSeq([j \in 1..n |-> 1 + Cardinality({i \in 1..n : i # j /\ Before(i, j)})],
                      1, n)
  IN  [k \in 1..n |-> s[CHOOSE j \in 1..n : place[j] = k]]

\* s[start:end] of a Python list
PySlice(s, start, end) ==
  LET n == Len(s)
      clamp(i) == IF i < 0 THEN (IF n + i < 0 THEN 0 ELSE n + i)
                  ELSE (IF i > n THEN n ELSE i)
      lo == clamp(start)
      hi == clamp(end)
  IN  IF lo < hi THEN SubSeq(s, lo + 1, hi) ELSE << >>

\* a slice that ends one element later
PaginateOneMore(results, page) ==
  PySlice(results, (page - 1) * PAGE_SIZE, (page - 1) * PAGE_SIZE + PAGE_SIZE + 1)

\* results[(page - 1) * 100 : (page - 1) * 100 + 100]
Paginate(results, page) ==
  PySlice(results, (page - 1) * PAGE_SIZE, (page - 1) * PAGE_SIZE + PAGE_SIZE)

\* int(text): ok = FALSE where int raises ValueError
ParseInt(text) ==
  LET t == Strip(text)
      neg == t # << >> /\ Head(t) = "-"
      ds == IF neg THEN Tail(t) ELSE t
      val[i \in 0..Len(ds)] ==
        IF i = 0 THEN 0 ELSE 10 * val[i - 1] + (Ord(ds[i]) - Ord("0"))
  IN  IF ds = << >> \/ \E i \in 1..Len(ds) : ~IsDigit(ds[i])
      THEN [ok |-> FALSE, val |-> 0]
      ELSE [ok |-> TRUE, val |-> IF neg THEN 0 - val[Len(ds)] ELSE val[Len(ds)]]

\* f"{query}|{country}|{page}"
SearchCacheKey(query, country, page) ==
  query \o << "|" >> \o country \o << "|" >> \o IntToStr(page)

\* params['q'] of the primary geocoding call; << >> where no call is made
SearchQueryParam(query, country) ==
  IF query # << >> /\ country # << >> THEN query \o << ",", "," >> \o country
  ELSE IF query # << >> THEN query
  ELSE IF country # << >> THEN << ",", "," >> \o country
  ELSE << >>

\* "if not paginated_results and not query and country in FALLBACK_CITIES"
FallbackAfterEmptyPage(paginated_results, query, country) ==
  /\ paginated_results = << >>
  /\ query = << >>
  /\ country \in DOMAIN FALLBACK_CITIES

\* "if not query and country in FALLBACK_CITIES" of the 404 branch
FallbackAfter404(query, country) ==
  /\ query = << >>
  /\ country \in DOMAIN FALLBACK_CITIES

(***************************************************************************)
(* JSON values whose Python type the code tests carry the type as a tag.   *)
(***************************************************************************)

JInt(n) == [t |-> "int", v |-> n]
JFloat(n) == [t |-> "float", v |-> n]
JStr(n) == [t |-> "str", v |-> n]
JNull == [t |-> "null", v |-> 0]

\* dict.get(f): None where the key is missing
Get(d, f) == IF f \in DOMAIN d THEN d[f] ELSE JNull

\* isinstance(x, (int, float)); bool is a subclass of int
IsIntOrFloat(x) == x.t \in {"int", "float", "bool"}

\* isinstance(x, int)
IsInt(x) == x.t \in {"int", "bool"}

REQUIRED_FIELDS == {"name", "sys", "main", "weather", "wind", "coord"}

\* the three checks of validate_weather_data
HasRequiredFields(data) == REQUIRED_FIELDS \subseteq DOMAIN data

\* the numeric check where humidity may be any number
HasNumericFields_AnyNumber(data) ==
  /\ IsIntOrFloat(Get(data.main, "temp"))
  /\ IsIntOrFloat(Get(data.main, "feels_like"))
  /\ IsIntOrFloat(Get(data.main, "humidity"))
  /\ IsIntOrFloat(Get(data.wind, "speed"))
  /\ IsIntOrFloat(Get(data.coord, "lat"))
  /\ IsIntOrFloat(Get(data.coord, "lon"))

HasNumericFields(data) ==
  /\ IsIntOrFloat(Get(data.main, "temp"))
  /\ IsIntOrFloat(Get(data.main, "feels_like"))
  /\ IsInt(Get(data.main, "humidity"))
  /\ IsIntOrFloat(Get(data.wind, "speed"))
  /\ IsIntOrFloat(Get(data.coord, "lat"))
  /\ IsIntOrFloat(Get(data.coord, "lon"))

\* data['weather'] is [t |-> "list" or "object", v |-> its items]; a
\* description is falsy when it is missing or empty
HasDescription(data) ==
  /\ data.weather.v # << >>
  /\ data.weather.t = "list"
  /\ "description" \in DOMAIN data.weather.v[1]
  /\ data.weather.v[1].description # ""

validate_weather_data(data) ==
  IF ~HasRequiredFields(data) THEN FALSE
  ELSE IF ~HasNumericFields(data) THEN FALSE
  ELSE IF ~HasDescription(data) THEN FALSE
  ELSE TRUE

\* building "formatted" in get_weather raises KeyError where weather[0] has
\* no 'main' or no 'icon'
WeatherFormatRaises(data) ==
  ~({"main", "icon"} \subseteq DOMAIN data.weather.v[1])

FormatWeather(city, country_code, data) ==
  [city |-> city,
   country |-> get_country_name(country_code),
   temp |-> data.main.temp,
   feels_like |-> data.main.feels_like,
   weather |-> data.weather.v[1].main,
   description |-> data.weather.v[1].description,
   humidity |-> data.main.humidity,
   wind_speed |-> data.wind.speed,
   icon |-> data.weather.v[1].icon,
   lat |-> data.coord.lat,
   lon |-> data.coord.lon]

(***************************************************************************)
(* The aggregation of get_forecast.  Temperatures are whole degrees and a  *)
(* day has fewer than 20 samples, so that round(avg, 1) is the half-even   *)
(* rounding of the exact quotient; the result is in tenths of a degree.    *)
(***************************************************************************)

SECONDS_PER_DAY == 86400

\* datetime.fromtimestamp(dt).strftime('%Y-%m-%d'), as the number of the day
DateOf(dt) == dt \div SECONDS_PER_DAY

\* a sample raises KeyError or IndexError in the loop over data['list']
SampleRaises(entry) ==
  \/ ~({"dt", "main", "weather"} \subseteq DOMAIN entry)
  \/ "temp" \notin DOMAIN entry.main
  \/ entry.weather = << >>
  \/ ~({"description", "icon"} \subseteq DOMAIN entry.weather[1])

ForecastRaises(data) == \E i \in 1..Len(data.list) : SampleRaises(data.list[i])

\* the keys of daily_data, in insertion order
RECURSIVE DatesOf(_, _)
DatesOf(list, dates) ==
  IF list = << >> THEN dates
  ELSE LET d == DateOf(Head(list).dt)
       IN  IF \E i \in 1..Len(dates) : dates[i] = d
           THEN DatesOf(Tail(list), dates)
           ELSE DatesOf(Tail(list), Append(dates, d))

\* the samples of one date, in order
RECURSIVE SamplesOn(_, _)
SamplesOn(list, date) ==
  IF list = << >> THEN << >>
  ELSE IF DateOf(Head(list).dt) = date
       THEN << Head(list) >> \o SamplesOn(Tail(list), date)
       ELSE SamplesOn(Tail(list), date)

RECURSIVE SumTemps(_)
SumTemps(samples) ==
  IF samples = << >> THEN 0 ELSE Head(samples).main.temp + SumTemps(Tail(samples))

\* the tenths of total / n cut off instead of rounded
RoundTenthsDown(total, n) ==
  LET a == IF total < 0 THEN 0 - total ELSE total
      q == (10 * a) \div n
  IN  IF total < 0 THEN 0 - q ELSE q

\* round(total / n, 1) in tenths: half-even rounding of 10 * total / n
RoundTenths(total, n) ==
  LET a == IF total < 0 THEN 0 - total ELSE total
      q == (10 * a) \div n
      r == (10 * a) % n
      m == IF 2 * r < n THEN q
           ELSE IF 2 * r > n THEN q + 1
           ELSE IF q % 2 = 0 THEN q ELSE q + 1
  IN  IF total < 0 THEN 0 - m ELSE m

\* list.count(x)
Count(seq, x) == Cardinality({i \in 1..Len(seq) : seq[i] = x})

\* max(set(seq), key=seq.count): max keeps the first maximal element of the
\* iteration over the set, and the order of a set of str is the order of
\* their hashes, which differs from process to process; so any element of
\* maximal count can be the result
MostCommon(seq) ==
  {seq[i] : i \in {j \in 1..Len(seq) :
                     \A k \in 1..Len(seq) : Count(seq, seq[k]) <= Count(seq, seq[j])}}

\* the values formatted['forecast'] can take for data['list']
PossibleForecasts(list) ==
  LET dates == DatesOf(list, << >>)
      descs(d) == LET s == SamplesOn(list, d) IN [i \in 1..Len(s) |-> s[i].weather[1].description]
      icons(d) == LET s == SamplesOn(list, d) IN [i \in 1..Len(s) |-> s[i].weather[1].icon]
      temp(d) == LET s == SamplesOn(list, d) IN RoundTenths(SumTemps(s), Len(s))
  IN  {f \in [1..Len(dates) -> UNION {MostCommon(descs(dates[i])) \X MostCommon(icons(dates[i]))
                                        : i \in 1..Len(dates)}] :
         \A i \in 1..Len(dates) :
           f[i] \in MostCommon(descs(dates[i])) \X MostCommon(icons(dates[i]))}

FormatForecast(city, country_code, list, pick) ==
  LET dates == DatesOf(list, << >>) IN
  [city |-> city,
   country |-> get_country_name(country_code),
   forecast |-> [i \in 1..Len(dates) |->
      [date |-> dates[i],
       temp |-> LET s == SamplesOn(list, dates[i]) IN RoundTenths(SumTemps(s), Len(s)),
       description |-> pick[i][1],
       icon |-> pick[i][2]]]]

\* f"forecast_{normalized_location}"
S_forecast_ == << "f", "o", "r", "e", "c", "a", "s", "t", "_" >>
ForecastCacheKey(normalized_location) == S_forecast_ \o normalized_location

(***************************************************************************)
(* Replies of the providers and responses of the handlers.                 *)
(*                                                                         *)
(* A reply has the HTTP status (0: no reply, the transport failed or timed *)
(* out), the shape of the decoded JSON ("list" or "object") and the body.  *)
(* A response has the status, a kind ("json": jsonify of a result,         *)
(* "error": jsonify({'error': ...}), "unhandled": the exception left the   *)
(* view function and Flask answered 500 with its own error page), the      *)
(* error message and the data.                                             *)
(***************************************************************************)

Reply(status, shape, body) == [status |-> status, shape |-> shape, body |-> body]

Response(status, kind, error, data) ==
  [status |-> status, kind |-> kind, error |-> error, data |-> data]

NoResponse == Response(0, "none", "", << >>)

\* What a handler does at one point of its code: it returns a response,
\* after writing "value" to its cache if "store", or it issues the outbound
\* call "call" and waits at "next".
Return(resp, locals) ==
  [next |-> "done", resp |-> resp, store |-> FALSE, value |-> << >>,
   call |-> << >>, locals |-> locals]

StoreAndReturn(value, locals) ==
  [next |-> "done", resp |-> Response(200, "json", "", value), store |-> TRUE,
   value |-> value, call |-> << >>, locals |-> locals]

Call(api, q, next, locals) ==
  [next |-> next, resp |-> NoResponse, store |-> FALSE, value |-> << >>,
   call |-> << [api |-> api, q |-> q] >>, locals |-> locals]

\* an exception that no except clause of the handler catches
Unhandled(exception, locals) == Return(Response(500, "unhandled", exception, << >>), locals)

(***************************************************************************)
(* search_locations                                                        *)
(***************************************************************************)

\* "if cached_result:" for a list
SearchCacheHit(cached) == cached # << >> /\ cached[1] # << >>

\* lines 165-188: up to the primary geocoding call
SearchStart(q, country_arg, page_arg, cache, time) ==
  LET query == Lower(Strip(q))
      country == Upper(Strip(country_arg))
      p == IF page_arg.given THEN ParseInt(page_arg.text) ELSE [ok |-> TRUE, val |-> 1]
      page == p.val
      cache_key == SearchCacheKey(query, country, page)
      cached == CacheGet(cache, cache_key, time)
      l == [query |-> query, country |-> country, page |-> page,
            cache_key |-> cache_key, seen |-> {}, paginated_results |-> << >>]
  IN  IF ~p.ok THEN Unhandled("ValueError", [l EXCEPT !.cache_key = << >>])
      ELSE IF ~validate_country(country) /\ country # << >>
      THEN Return(Response(200, "json", "", << >>), l)
      ELSE IF SearchCacheHit(cached)
      THEN Return(Response(200, "json", "", cached[1]), l)
      ELSE IF SearchQueryParam(query, country) = << >>
      THEN Return(Response(200, "json", "", << >>), l)
      ELSE Call("geo/direct", SearchQueryParam(query, country), "search_primary", l)

\* f"{FALLBACK_CITIES[country]},,{country}"
FallbackQueryParam(country) == FALLBACK_CITIES[country] \o << ",", "," >> \o country

\* lines 258-300: "except requests.exceptions.HTTPError" of the outer try,
\* up to the fallback call of line 265
SearchHTTPError(l, status) ==
  IF status = 404
  THEN IF FallbackAfter404(l.query, l.country)
       THEN Call("geo/direct", FallbackQueryParam(l.country), "search_retry", l)
       ELSE Return(Response(200, "json", "", << >>), l)
  ELSE Return(Response(500, "error", "HTTPError", << >>), l)

\* lines 301-303
SearchRequestException(l) == Return(Response(500, "error", "Network error", << >>), l)

\* lines 304-306
SearchException(l) == Return(Response(500, "error", "Unexpected error", << >>), l)

\* lines 191-228: the reply to the primary call, up to the fallback call
SearchPrimaryReply(l, reply) ==
  IF reply.status = 0 THEN SearchRequestException(l)
  ELSE IF reply.status # 200 THEN SearchHTTPError(l, reply.status)
  ELSE IF reply.shape # "list" THEN SearchException(l)
  ELSE LET m == MapLocations(reply.body, {}, << >>)
           results == SortByName(m.results)
           paginated_results == Paginate(results, l.page)
       IN  IF FallbackAfterEmptyPage(paginated_results, l.query, l.country)
           THEN Call("geo/direct", FallbackQueryParam(l.country), "search_fallback",
                     [l EXCEPT !.seen = m.seen, !.paginated_results = paginated_results])
           ELSE StoreAndReturn(SortByName(paginated_results), l)

\* lines 229-256: the reply to the fallback call of line 228
SearchFallbackReply(l, reply) ==
  IF reply.status = 0 THEN SearchRequestException(l)
  ELSE IF reply.status # 200 THEN SearchHTTPError(l, reply.status)
  ELSE IF reply.shape # "list" THEN SearchException(l)
  ELSE LET m == MapLocations(reply.body, l.seen, l.paginated_results)
       IN  StoreAndReturn(SortByName(m.results), l)

\* lines 266-297: the reply to the fallback call of line 265, inside the
\* except clause; its try catches HTTPError alone
SearchRetryReply(l, reply) ==
  IF reply.status = 0 THEN Unhandled("RequestException", l)
  ELSE IF reply.status # 200 THEN Return(Response(200, "json", "", << >>), l)
  ELSE IF reply.shape # "list" THEN Unhandled("AttributeError", l)
  ELSE LET m == MapLocations(reply.body, {}, << >>)
       IN  StoreAndReturn(SortByName(m.results), l)

(***************************************************************************)
(* get_weather and get_forecast                                            *)
(***************************************************************************)

\* the location checks without the check of normalize_location
LocationError_Unnormalized(location_arg) ==
  IF ~location_arg.given \/ location_arg.text = << >> THEN "Location parameter required"
  ELSE IF ~validate_location(location_arg.text) THEN "Invalid location format"
  ELSE ""

\* lines 311-323 and 423-435: the error of the 400 response, "" where the
\* location passes
LocationError(location_arg) ==
  IF ~location_arg.given \/ location_arg.text = << >> THEN "Location parameter required"
  ELSE IF ~validate_location(location_arg.text) THEN "Invalid location format"
  ELSE IF ~normalize_location(location_arg.text).ok THEN "Invalid location after normalization"
  ELSE ""

\* lines 392-403 and 479-490
UpstreamHTTPError(l, status) ==
  IF status = 401 THEN Return(Response(401, "error", "Invalid API key", << >>), l)
  ELSE IF status = 429 THEN Return(Response(429, "error", "Rate limit exceeded", << >>), l)
  ELSE IF status = 404 THEN Return(Response(404, "error", "Location not found", << >>), l)
  ELSE Return(Response(500, "error", "Weather service error", << >>), l)

\* lines 404-406 and 491-493
UpstreamRequestException(l) == Return(Response(500, "error", "Network error", << >>), l)

\* lines 407-409 and 494-496
UpstreamException(l) == Return(Response(500, "error", "Unexpected error", << >>), l)

\* the reply to the geocoding call without "if not geo_data": geo_data[0]
\* raises IndexError on an empty list
GeoLookupReply_Unchecked(l, reply, api, next) ==
  IF reply.status = 0 THEN UpstreamRequestException(l)
  ELSE IF reply.status # 200 THEN UpstreamHTTPError(l, reply.status)
  ELSE IF reply.shape # "list" THEN UpstreamException(l)
  ELSE IF reply.body = << >> THEN UpstreamException(l)
  ELSE IF ~({"lat", "lon", "name"} \subseteq DOMAIN reply.body[1]) THEN UpstreamException(l)
  ELSE LET g == reply.body[1]
           country_code == IF "country" \in DOMAIN g THEN g.country ELSE S_XX
       IN  Call(api, << g.lat, g.lon >>, next,
                [l EXCEPT !.city = g.name, !.country_code = country_code])

\* lines 334-349 and 440-455: the reply to the geocoding call, up to the call
\* of the weather provider at api
GeoLookupReply(l, reply, api, next) ==
  IF reply.status = 0 THEN UpstreamRequestException(l)
  ELSE IF reply.status # 200 THEN UpstreamHTTPError(l, reply.status)
  ELSE IF reply.shape # "list" THEN UpstreamException(l)
  ELSE IF reply.body = << >>
  THEN Return(Response(404, "error", "Location not found", << >>), l)
  ELSE IF ~({"lat", "lon", "name"} \subseteq DOMAIN reply.body[1]) THEN UpstreamException(l)
  ELSE LET g == reply.body[1]
           country_code == IF "country" \in DOMAIN g THEN g.country ELSE S_XX
       IN  Call(api, << g.lat, g.lon >>, next,
                [l EXCEPT !.city = g.name, !.country_code = country_code])

\* lines 423-438: up to the geocoding call
WeatherStart(location_arg) ==
  LET l == [location |-> location_arg.text,
            normalized_location |-> normalize_location(location_arg.text).key,
            cache_key |-> << >>, city |-> << >>, country_code |-> << >>]
  IN  IF LocationError(location_arg) # ""
      THEN Return(Response(400, "error", LocationError(location_arg), << >>),
                  [l EXCEPT !.normalized_location = << >>])
      ELSE Call("geo/direct", l.normalized_location, "weather_geo", l)

\* lines 456-477: the reply of the weather provider
WeatherDataReply(l, reply) ==
  IF reply.status = 0 THEN UpstreamRequestException(l)
  ELSE IF reply.status # 200 THEN UpstreamHTTPError(l, reply.status)
  ELSE IF ~validate_weather_data(reply.body)
  THEN Return(Response(500, "error", "Invalid weather data", << >>), l)
  ELSE IF WeatherFormatRaises(reply.body) THEN UpstreamException(l)
  ELSE Return(Response(200, "json", "", FormatWeather(l.city, l.country_code, reply.body)), l)

\* "if cached_result:" for a dict
ForecastCacheHit(cached) == cached # << >> /\ DOMAIN cached[1] # {}

\* get_forecast with the cache key built from the location as given
ForecastStart_RawKey(location_arg, cache, time) ==
  LET normalized_location == normalize_location(location_arg.text).key
      cache_key == ForecastCacheKey(location_arg.text)
      cached == CacheGet(cache, cache_key, time)
      l == [location |-> location_arg.text,
            normalized_location |-> normalized_location,
            cache_key |-> cache_key, city |-> << >>, country_code |-> << >>]
  IN  IF LocationError(location_arg) # ""
      THEN Return(Response(400, "error", LocationError(location_arg), << >>),
                  [l EXCEPT !.normalized_location = << >>, !.cache_key = << >>])
      ELSE IF ForecastCacheHit(cached)
      THEN Return(Response(200, "json", "", cached[1]), l)
      ELSE Call("geo/direct", normalized_location, "forecast_geo", l)

\* lines 311-334: up to the geocoding call
ForecastStart(location_arg, cache, time) ==
  LET normalized_location == normalize_location(location_arg.text).key
      cache_key == ForecastCacheKey(normalized_location)
      cached == CacheGet(cache, cache_key, time)
      l == [location |-> location_arg.text,
            normalized_location |-> normalized_location,
            cache_key |-> cache_key, city |-> << >>, country_code |-> << >>]
  IN  IF LocationError(location_arg) # ""
      THEN Return(Response(400, "error", LocationError(location_arg), << >>),
                  [l EXCEPT !.normalized_location = << >>, !.cache_key = << >>])
      ELSE IF ForecastCacheHit(cached)
      THEN Return(Response(200, "json", "", cached[1]), l)
      ELSE Call("geo/direct", normalized_location, "forecast_geo", l)

\* the 500 of a payload without 'list' that also stores an empty forecast
InvalidForecastData_Stored(l) ==
  [Return(Response(500, "error", "Invalid forecast data", << >>), l)
     EXCEPT !.store = TRUE,
            !.value = FormatForecast(l.city, l.country_code, << >>, << >>)]

\* lines 353-355
InvalidForecastData(l) == Return(Response(500, "error", "Invalid forecast data", << >>), l)

\* lines 350-390: the reply of the forecast provider; pick is the choice of
\* max() among the most common descriptions and icons of each day
ForecastDataReply(l, reply, pick) ==
  IF reply.status = 0 THEN UpstreamRequestException(l)
  ELSE IF reply.status # 200 THEN UpstreamHTTPError(l, reply.status)
  ELSE IF "list" \notin DOMAIN reply.body THEN InvalidForecastData(l)
  ELSE IF ForecastRaises(reply.body) THEN UpstreamException(l)
  ELSE StoreAndReturn(FormatForecast(l.city, l.country_code, reply.body.list, pick), l)

\* the choices max() has for a reply
ForecastPicks(reply) ==
  IF reply.status = 200 /\ "list" \in DOMAIN reply.body /\ ~ForecastRaises(reply.body)
  THEN PossibleForecasts(reply.body.list)
  ELSE {<< >>}

(***************************************************************************)
(* The requests and the provider replies of the model.                     *)
(***************************************************************************)

S_Elva == << "E", "l", "v", "a" >>
S_ELVA == << "E", "L", "V", "A" >>
S_Tartu == << "T", "a", "r", "t", "u" >>

\* a value of request.args.get: absent, or the text given
Absent == [given |-> FALSE, text |-> << >>]
Given(text) == [given |-> TRUE, text |-> text]

\* the arguments q, country and page of the /search requests
SearchArgs ==
  { [q |-> << >>, country |-> << >>, page |-> Absent],
    [q |-> << >>, country |-> S_ZZ, page |-> Absent],
    [q |-> << >>, country |-> S_ZZ, page |-> Given(<< "x" >>)],
    [q |-> << "E", "l", " " >>, country |-> << >>, page |-> Absent],
    [q |-> << "E", "l", " " >>, country |-> << "e", "e" >>, page |-> Given(<< "x" >>)],
    [q |-> << >>, country |-> << "e", "e" >>, page |-> Absent],
    [q |-> << >>, country |-> << "e", "e" >>, page |-> Given(<< "2" >>)],
    [q |-> << >>, country |-> S_FI, page |-> Given(<< " ", "1" >>)] }

\* request.args.get('location'): absent, "Elva,EE", "Elva linn,EE", "linn,EE",
\* "Elva", "Elva,ZZ"
LocationArgs ==
  { Absent,
    Given(<< "E", "l", "v", "a", ",", "E", "E" >>),
    Given(<< "E", "l", "v", "a", " ", "l", "i", "n", "n", ",", "E", "E" >>),
    Given(<< "l", "i", "n", "n", ",", "E", "E" >>),
    Given(<< "E", "l", "v", "a" >>),
    Given(<< "E", "l", "v", "a", ",", "Z", "Z" >>) }

\* raw entries of the geocoding provider for /search
E_Tallinn == [name |-> S_Tallinn, country |-> S_EE, lat |-> 59, lon |-> 24, state |-> << >>]
E_Elva == [name |-> S_Elva, country |-> S_Estonia, lat |-> 58, lon |-> 26, state |-> << >>]
E_ElvaDup == [name |-> S_ELVA, country |-> S_EE, lat |-> 58, lon |-> 26, state |-> S_Tartu]
E_NoName == [name |-> << >>, country |-> S_EE, lat |-> 57, lon |-> 27, state |-> << >>]

\* the statuses raise_for_status raises HTTPError for
ErrorStatuses == {401, 404, 429, 500}

FailedReplies ==
  {Reply(s, "object", << >>) : s \in ErrorStatuses} \cup {Reply(0, "none", << >>)}

\* a JSON object where a list is expected
ObjectReply == Reply(200, "object", << >>)

SearchReplies ==
  FailedReplies \cup {ObjectReply}
    \cup {Reply(200, "list", b) :
            b \in { << >>, << E_Tallinn, E_Elva, E_ElvaDup, E_NoName >> }}

\* entries of the geocoding provider for limit=1
G_Elva == [name |-> S_Elva, lat |-> 58, lon |-> 26, country |-> S_EE]
G_NoCountry == [name |-> S_Elva, lat |-> 58, lon |-> 26]
G_NoLat == [name |-> S_Elva, lon |-> 26, country |-> S_EE]

GeoLookupReplies ==
  FailedReplies \cup {ObjectReply}
    \cup {Reply(200, "list", b) : b \in { << >>, << G_Elva >>, << G_NoCountry >>, << G_NoLat >> }}

\* payloads of the weather provider
Condition == [main |-> "Clouds", description |-> "overcast clouds", icon |-> "04d"]
W_Good ==
  [name |-> S_Elva, sys |-> [country |-> S_EE],
   main |-> [temp |-> JFloat(12), feels_like |-> JInt(11), humidity |-> JInt(80)],
   weather |-> [t |-> "list", v |-> << Condition >>],
   wind |-> [speed |-> JFloat(3)],
   coord |-> [lat |-> JFloat(58), lon |-> JFloat(26)]]
W_NoWind == [f \in DOMAIN W_Good \ {"wind"} |-> W_Good[f]]
W_TempStr == [W_Good EXCEPT !.main.temp = JStr(12)]
W_HumidityFloat == [W_Good EXCEPT !.main.humidity = JFloat(80)]
W_NoLat == [W_Good EXCEPT !.coord = [lon |-> JFloat(26)]]
W_NoConditions == [W_Good EXCEPT !.weather.v = << >>]
W_NoDescription == [W_Good EXCEPT !.weather.v = << [main |-> "Clouds", icon |-> "04d"] >>]
W_NoIcon == [W_Good EXCEPT !.weather.v = << [main |-> "Clouds", description |-> "overcast clouds"] >>]
W_Message == [cod |-> 200, message |-> "x"]

WeatherPayloads ==
  { W_Good, W_NoWind, W_TempStr, W_HumidityFloat, W_NoLat, W_NoConditions,
    W_NoDescription, W_NoIcon, W_Message }

WeatherReplies == FailedReplies \cup {Reply(200, "object", b) : b \in WeatherPayloads}

\* payloads of the forecast provider
Sample(dt, temp, description, icon) ==
  [dt |-> dt, main |-> [temp |-> temp],
   weather |-> << [description |-> description, icon |-> icon] >>]

F_Tie ==
  [list |-> << Sample(0, 10, "rain", "10d"), Sample(10800, 12, "clear", "01d"),
               Sample(86400, 7, "clear", "01d"), Sample(21600, 11, "rain", "10d"),
               Sample(32400, 12, "clear", "10d") >>]
F_NoList == [cod |-> 200, message |-> "x"]
F_NoTemp == [list |-> << [dt |-> 0, main |-> [humidity |-> 80],
                         weather |-> << [description |-> "clear", icon |-> "01d"] >>] >>]

ForecastPayloads == { F_Tie, F_NoList, F_NoTemp }

ForecastReplies == FailedReplies \cup {Reply(200, "object", b) : b \in ForecastPayloads}

(***************************************************************************)
(* The state machine.  One request is handled at a time; a handler is at   *)
(* "idle" before the first request, at a call site while an outbound call  *)
(* is in flight, and at "done" once it has responded.                      *)
(***************************************************************************)

\* the number of requests and of clock steps of a behaviour
MaxRequests == 2
MaxTicks == 2

\* the handler threads, and the number of cache writes of each
Threads == {1, 2}
MaxWrites == 2

\* limiter_limit (lines 55-58) has the one parameter limit: called with the
\* positional arguments argv it returns the decorator that returns f as it
\* is, and with any other number of arguments the call raises TypeError
limiter_limit(argv) == IF Len(argv) = 1 THEN "decorator" ELSE "TypeError"

\* limiter.limit("30 per minute") of lines 163, 309 and 421.  Without the
\* library, limiter is an instance of a class made by type() with the function
\* limiter_limit as its attribute limit (line 59), and a function found in
\* the class of an instance is called with the instance as first argument.
LimiterLimit(available) ==
  IF available THEN "decorator" ELSE limiter_limit(<< "limiter", "30 per minute" >>)

\* the clock advances by half the time to live
TickStep == TTL \div 2

VARIABLES
  now,              \* the timer of the two caches
  search_cache,     \* search_cache
  forecast_cache,   \* forecast_cache
  pc,               \* where the handler of the current request is
  req,              \* the current request
  locals,           \* the local variables of its handler
  calls,            \* the outbound calls it has issued, in order
  replies,          \* the replies they got, in order
  resp,             \* its response
  search_cache0,    \* search_cache when the request arrived
  forecast_cache0,  \* forecast_cache when the request arrived
  arrived,          \* the time at which the request arrived
  nreq,             \* the number of requests so far
  args,             \* the arguments of a function that is applied on its own
  returned,         \* what it returned
  threads,          \* the handler threads that use search_cache at the same time
  fields,           \* the fields of search_cache between the steps of its methods
  FLASK_LIMITER_AVAILABLE  \* whether flask_limiter could be imported

vars == << now, search_cache, forecast_cache, pc, req, locals, calls, replies, resp,
           search_cache0, forecast_cache0, arrived, nreq, args, returned,
           threads, fields, FLASK_LIMITER_AVAILABLE >>

\* what the request handlers leave alone
aside == << args, returned, threads, fields, FLASK_LIMITER_AVAILABLE >>

Init ==
  /\ FLASK_LIMITER_AVAILABLE \in BOOLEAN
  /\ now = 0
  /\ search_cache = << >>
  /\ forecast_cache = << >>
  /\ pc = "import"
  /\ req = [handler |-> "none"]
  /\ locals = [handler |-> "none"]
  /\ calls = << >>
  /\ replies = << >>
  /\ resp = NoResponse
  /\ search_cache0 = << >>
  /\ forecast_cache0 = << >>
  /\ arrived = 0
  /\ nreq = 0
  /\ args = << >>
  /\ returned = << >>
  /\ threads = [t \in Threads |-> [pc |-> "idle", key |-> << >>, diffsize |-> 0, size |-> 0,
                                    got |-> "nothing", left |-> MaxWrites]]
  /\ fields = [data |-> {}, links |-> {}, currsize |-> 0]

\* the module is loaded: the decorators of the three handlers are applied
\* (lines 162-164, 308-310, 420-422), and an exception ends the program
Import ==
  /\ pc = "import"
  /\ pc' = IF LimiterLimit(FLASK_LIMITER_AVAILABLE) = "TypeError" THEN "TypeError" ELSE "idle"
  /\ UNCHANGED << now, search_cache, forecast_cache, req, locals, calls, replies, resp,
                  search_cache0, forecast_cache0, arrived, nreq, aside >>

\* the handler takes the step r
Take(r) ==
  /\ pc' = r.next
  /\ resp' = r.resp
  /\ locals' = r.locals
  /\ calls' = calls \o r.call

\* a request arrives
Arrive(request, r) ==
  /\ pc \in {"idle", "done"}
  /\ nreq < MaxRequests
  /\ nreq' = nreq + 1
  /\ arrived' = now
  /\ req' = request
  /\ pc' = r.next
  /\ resp' = r.resp
  /\ locals' = r.locals
  /\ calls' = r.call
  /\ replies' = << >>
  /\ search_cache0' = search_cache
  /\ forecast_cache0' = forecast_cache
  /\ UNCHANGED << now, search_cache, forecast_cache, aside >>

\* the call in flight returns reply and the handler takes the step r
Resume(at, reply, r) ==
  /\ pc = at
  /\ Take(r)
  /\ replies' = Append(replies, reply)
  /\ UNCHANGED << now, req, search_cache0, forecast_cache0, arrived, nreq, aside >>

SearchRequest ==
  \E a \in SearchArgs :
    Arrive([handler |-> "search", q |-> a.q, country |-> a.country, page |-> a.page],
           SearchStart(a.q, a.country, a.page, search_cache, now))

SearchStore(r) ==
  /\ search_cache' = IF r.store
                     THEN CachePut(search_cache, locals.cache_key, r.value, now, SEARCH_MAXSIZE)
                     ELSE search_cache
  /\ UNCHANGED forecast_cache

SearchPrimaryReturns ==
  \E reply \in SearchReplies :
    LET r == SearchPrimaryReply(locals, reply) IN
    Resume("search_primary", reply, r) /\ SearchStore(r)

SearchFallbackReturns ==
  \E reply \in SearchReplies :
    LET r == SearchFallbackReply(locals, reply) IN
    Resume("search_fallback", reply, r) /\ SearchStore(r)

SearchRetryReturns ==
  \E reply \in SearchReplies :
    LET r == SearchRetryReply(locals, reply) IN
    Resume("search_retry", reply, r) /\ SearchStore(r)

WeatherRequest ==
  \E location \in LocationArgs :
    Arrive([handler |-> "weather", location |-> location], WeatherStart(location))

WeatherGeoReturns ==
  \E reply \in GeoLookupReplies :
    /\ Resume("weather_geo", reply, GeoLookupReply(locals, reply, "data/weather", "weather_data"))
    /\ UNCHANGED << search_cache, forecast_cache >>

\* get_weather storing its result in the forecast cache
WeatherDataReturnsStored ==
  \E reply \in WeatherReplies :
    LET r == WeatherDataReply(locals, reply) IN
    /\ Resume("weather_data", reply, r)
    /\ forecast_cache' = IF r.resp.kind = "json"
                         THEN CachePut(forecast_cache,
                                       ForecastCacheKey(locals.normalized_location),
                                       r.resp.data, now, FORECAST_MAXSIZE)
                         ELSE forecast_cache
    /\ UNCHANGED search_cache

WeatherDataReturns ==
  \E reply \in WeatherReplies :
    /\ Resume("weather_data", reply, WeatherDataReply(locals, reply))
    /\ UNCHANGED << search_cache, forecast_cache >>

ForecastRequest ==
  \E location \in LocationArgs :
    Arrive([handler |-> "forecast", location |-> location],
           ForecastStart(location, forecast_cache, now))

ForecastGeoReturns ==
  \E reply \in GeoLookupReplies :
    /\ Resume("forecast_geo", reply, GeoLookupReply(locals, reply, "data/forecast", "forecast_data"))
    /\ UNCHANGED << search_cache, forecast_cache >>

ForecastDataReturns ==
  \E reply \in ForecastReplies :
    \E pick \in ForecastPicks(reply) :
      LET r == ForecastDataReply(locals, reply, pick) IN
      /\ Resume("forecast_data", reply, r)
      /\ forecast_cache' = IF r.store
                           THEN CachePut(forecast_cache, locals.cache_key, r.value, now,
                                         FORECAST_MAXSIZE)
                           ELSE forecast_cache
      /\ UNCHANGED search_cache

\* time passes
Tick ==
  /\ now + TickStep <= MaxTicks * TickStep
  /\ now' = now + TickStep
  /\ UNCHANGED << search_cache, forecast_cache, pc, req, locals, calls, replies, resp,
                  search_cache0, forecast_cache0, arrived, nreq, aside >>

Next ==
  \/ Import
  \/ SearchRequest
  \/ SearchPrimaryReturns
  \/ SearchFallbackReturns
  \/ SearchRetryReturns
  \/ WeatherRequest
  \/ WeatherGeoReturns
  \/ WeatherDataReturns
  \/ ForecastRequest
  \/ ForecastGeoReturns
  \/ ForecastDataReturns
  \/ Tick

Spec == Init /\ [][Next]_vars

(***************************************************************************)
(* Sorting and slicing of lines 220-223 on their own: the deduplicated      *)
(* results are n entries with distinct names, given in descending order.    *)
(***************************************************************************)

\* the largest number of results and the largest page
MaxResults == 250
MaxPage == 3

\* the entry with the k-th smallest name: k in three digits
Named(k) ==
  [name |-> (IF k < 10 THEN << "0", "0" >> ELSE IF k < 100 THEN << "0" >> ELSE << >>)
            \o Digits(k)]

\* the n entries from the largest name down
Descending(n) == [i \in 1..n |-> Named(n + 1 - i)]

PaginateCall ==
  /\ args = << >>
  /\ \E n \in 0..MaxResults :
       LET results == SortByName(Descending(n)) IN
       \E page \in 1..MaxPage :
         /\ args' = [n |-> n, page |-> page]
         /\ returned' = Paginate(results, page)
  /\ UNCHANGED << now, search_cache, forecast_cache, pc, req, locals, calls, replies, resp,
                  search_cache0, forecast_cache0, arrived, nreq, threads, fields,
                  FLASK_LIMITER_AVAILABLE >>

PaginateSpec == Init /\ [][PaginateCall]_vars

(***************************************************************************)
(* The aggregation of lines 363-386 on its own, for every list of up to    *)
(* MaxSamples samples of two days and for the eight samples of one day.    *)
(***************************************************************************)

MaxSamples == 4

\* eight samples of one day, most of them clear
EightSamples ==
  << Sample(0, 10, "clear", "01d"), Sample(10800, 12, "clear", "01d"),
     Sample(21600, 14, "rain", "10d"), Sample(32400, 16, "clear", "01d"),
     Sample(43200, 12, "clouds", "03d"), Sample(54000, 10, "clear", "01d"),
     Sample(64800, 14, "rain", "10d"), Sample(75600, 12, "clear", "01d") >>

\* three-hour samples are a time on one of two days, a temperature, and a
\* description with its icon
ForecastCall ==
  LET Samples == {Sample(dt, temp, w[1], w[2]) :
                    dt \in {10800, SECONDS_PER_DAY + 10800}, temp \in {10, 11},
                    w \in {<< "clear", "01d" >>, << "rain", "10d" >>}}
      SampleLists == UNION {[1..n -> Samples] : n \in 0..MaxSamples} \cup {EightSamples}
  IN  /\ args = << >>
      /\ \E list \in SampleLists :
           \E pick \in PossibleForecasts(list) :
             /\ args' = list
             /\ returned' = FormatForecast(S_Elva, S_EE, list, pick).forecast
      /\ UNCHANGED << now, search_cache, forecast_cache, pc, req, locals, calls, replies, resp,
                      search_cache0, forecast_cache0, arrived, nreq, threads, fields,
                  FLASK_LIMITER_AVAILABLE >>

ForecastSpec == Init /\ [][ForecastCall]_vars

(***************************************************************************)
(* normalize_location (lines 103-125) on its own, for "<city>,<CC>" with   *)
(* every city of 2 to MaxCityLen characters of a small alphabet, a few     *)
(* longer cities, and country codes in either case, bare or with spaces.   *)
(***************************************************************************)

MaxCityLen == 4

NormalizeCall ==
  LET Alphabet == {" ", "\n", "-", "a", "l", "i", "n"}
      Longer == { S_NewYork, S_Tallinn, S_unknown_city,
                  << "a", " ", "l", "i", "n", "n", " ", "b" >>,
                  << "-", "L", "I", "N", "N", " ", "a" >>,
                  S_linn \o << " " >> \o S_linn \o << "\n" >> }
      Cities == UNION {[1..n -> Alphabet] : n \in 2..MaxCityLen} \cup Longer
  IN  /\ args = << >>
      /\ \E city \in Cities, cc \in {S_EE, S_FI, << "e", "e" >>, << " ", "f", "I", "\n" >>} :
           /\ args' = [city |-> city, cc |-> cc]
           /\ returned' = normalize_location(city \o << "," >> \o cc)
      /\ UNCHANGED << now, search_cache, forecast_cache, pc, req, locals, calls, replies, resp,
                      search_cache0, forecast_cache0, arrived, nreq, threads, fields,
                      FLASK_LIMITER_AVAILABLE >>

NormalizeSpec == Init /\ [][NormalizeCall]_vars

(***************************************************************************)
(* validate_location (lines 127-146) on its own, for every string of up to *)
(* MaxLocationLen characters of a small alphabet and a few longer ones.    *)
(***************************************************************************)

MaxLocationLen == 5

ValidateCall ==
  LET Alphabet == {"a", " ", ",", "E", "e", "\n"}
      Longer == { S_Tallinn \o << "," >> \o S_EE,
                  S_Tallinn,
                  << "X", ",", "E", "E" >>,
                  S_Tallinn \o << "," >> \o S_Estonia,
                  S_Tallinn \o << "," >> \o S_ZZ,
                  S_Tallinn \o << ",", "E", "E", "\n" >>,
                  S_Tallinn \o << ",", "E", "E", " " >>,
                  S_unknown_city \o << "," >> \o S_EE,
                  << "U", "n", "k", "n", "o", "w", "n", " ", "C", "I", "T", "Y", ",", "F", "I" >>,
                  << "a", "a", ",", "a", ",", "E", "E" >> }
      Locations == UNION {[1..n -> Alphabet] : n \in 0..MaxLocationLen} \cup Longer
  IN  /\ args = << >>
      /\ \E location \in Locations :
           /\ args' = location
           /\ returned' = [ok |-> validate_location(location)]
      /\ UNCHANGED << now, search_cache, forecast_cache, pc, req, locals, calls, replies, resp,
                      search_cache0, forecast_cache0, arrived, nreq, threads, fields,
                      FLASK_LIMITER_AVAILABLE >>

ValidateSpec == Init /\ [][ValidateCall]_vars

(***************************************************************************)
(* Handlers in several threads.  No line of app.py takes a lock, so the    *)
(* steps of search_cache.get (line 175) and of search_cache[cache_key] =   *)
(* value (lines 254, 292) of one thread interleave with those of another.  *)
(* TTLCache.__setitem__ decides whether the key is new, writes the value,  *)
(* adds to the size it has read, and only then records the expiry.         *)
(***************************************************************************)

\* the cache keys of two requests
ThreadKeys == { SearchCacheKey(<< "e", "l" >>, << >>, 1), SearchCacheKey(<< >>, S_EE, 1) }

\* the handlers leave alone what is not in threads and fields
Threaded(t, thread, f) ==
  /\ threads' = [threads EXCEPT ![t] = thread]
  /\ fields' = f
  /\ UNCHANGED << now, search_cache, forecast_cache, pc, req, locals, calls, replies, resp,
                  search_cache0, forecast_cache0, arrived, nreq, args, returned,
                  FLASK_LIMITER_AVAILABLE >>

\* search_cache.get(cache_key): an entry without its expiry is returned
CacheGetStep(t) ==
  /\ threads[t].pc = "idle"
  /\ \E key \in ThreadKeys :
       Threaded(t, [threads[t] EXCEPT !.key = key,
                                      !.got = IF key \notin fields.data THEN "miss"
                                              ELSE IF key \in fields.links THEN "hit"
                                              ELSE "unlinked"],
                fields)

\* search_cache[cache_key] = value begins: is the key new?
SetItemBegin(t) ==
  /\ threads[t].pc = "idle"
  /\ threads[t].left > 0
  /\ \E key \in ThreadKeys :
       Threaded(t, [threads[t] EXCEPT !.pc = "data", !.key = key, !.left = @ - 1,
                                      !.diffsize = IF key \in fields.data THEN 0 ELSE 1],
                fields)

\* self.__data[key] = value
SetItemData(t) ==
  /\ threads[t].pc = "data"
  /\ Threaded(t, [threads[t] EXCEPT !.pc = "load"],
              [fields EXCEPT !.data = @ \cup {threads[t].key}])

\* self.__currsize += diffsize reads the size
SetItemLoad(t) ==
  /\ threads[t].pc = "load"
  /\ Threaded(t, [threads[t] EXCEPT !.pc = "store", !.size = fields.currsize], fields)

\* and writes the sum
SetItemStore(t) ==
  /\ threads[t].pc = "store"
  /\ Threaded(t, [threads[t] EXCEPT !.pc = "link"],
              [fields EXCEPT !.currsize = threads[t].size + threads[t].diffsize])

\* the link with the expiry is added
SetItemLink(t) ==
  /\ threads[t].pc = "link"
  /\ Threaded(t, [threads[t] EXCEPT !.pc = "idle"],
              [fields EXCEPT !.links = @ \cup {threads[t].key}])

ThreadsNext ==
  \E t \in Threads :
    \/ CacheGetStep(t)
    \/ SetItemBegin(t)
    \/ SetItemData(t)
    \/ SetItemLoad(t)
    \/ SetItemStore(t)
    \/ SetItemLink(t)

ThreadsSpec == Init /\ [][ThreadsNext]_vars

(***************************************************************************)
(* Properties                                                              *)
(***************************************************************************)

CachesUnchanged ==
  /\ search_cache = search_cache0
  /\ forecast_cache = forecast_cache0

LastReply == replies[Len(replies)]

\* the request is for /weather or /forecast
IsLocationRequest == req.handler \in {"weather", "forecast"}

\* C1 as stated: the caches are written only by a request all of whose
\* upstream calls succeeded, and a request that is rejected, finds nothing or
\* ends in an error leaves both caches as they were.
C1_Original ==
  pc = "done" =>
    /\ ~CachesUnchanged =>
         /\ resp.kind = "json"
         /\ \A i \in 1..Len(replies) : replies[i].status = 200
    /\ ( \/ calls = << >>
         \/ resp.kind # "json"
         \/ (req.handler = "search" /\ resp.data = << >>) ) => CachesUnchanged

\* C1 amended: the caches change only in the step in which a request ends
\* with a 200 result after its last upstream call succeeded; a request that
\* issues no call or ends in an error (an invalid payload included) leaves
\* both caches as they were.
C1_WritesOnlyOnSuccess ==
  /\ ~CachesUnchanged =>
       /\ pc = "done"
       /\ resp.status = 200
       /\ resp.kind = "json"
       /\ replies # << >>
       /\ LastReply.status = 200
  /\ (pc = "done" /\ (calls = << >> \/ resp.kind # "json")) => CachesUnchanged

\* a /search whose primary call got 404 has written the fallback result
C1_Witness ==
  /\ pc = "done"
  /\ req.handler = "search"
  /\ Len(replies) = 2
  /\ replies[1].status = 404
  /\ search_cache # search_cache0

\* C2 as stated: when a /search that issued a call and returned a result is
\* followed within the TTL by an identical request, the second request is
\* served from the cache without an outbound call.
C2_Original ==
  [][ ( /\ pc = "done"
        /\ req.handler = "search"
        /\ resp.kind = "json"
        /\ calls # << >>
        /\ nreq' = nreq + 1
        /\ req'.handler = "search"
        /\ req' = req
        /\ now < arrived + TTL )
      => (pc' = "done" /\ calls' = << >>) ]_vars

\* C3: a /weather or /forecast request whose location is missing or fails
\* validate_location or normalize_location ends with a 400 error and issues
\* no outbound call; a call is issued only after both checks passed.
C3_RejectsBeforeAnyCall ==
  IsLocationRequest =>
    LET a == req.location
        bad == \/ ~a.given
               \/ a.text = << >>
               \/ ~validate_location(a.text)
               \/ ~normalize_location(a.text).ok
    IN  /\ bad => /\ pc = "done"
                  /\ resp.status = 400
                  /\ resp.kind = "error"
                  /\ calls = << >>
        /\ calls # << >> => ~bad

\* validate_location accepts the location and normalize_location rejects it
C3_Witness ==
  /\ pc = "done"
  /\ req.handler = "weather"
  /\ req.location.given
  /\ validate_location(req.location.text)
  /\ ~normalize_location(req.location.text).ok
  /\ resp.status = 400

\* C4 as stated: a request issues at most two outbound calls, the geocoding
\* call then the weather or forecast call, and a /search issues the fallback
\* re-query at most once.
C4_Original ==
  /\ Len(calls) <= 2
  /\ (IsLocationRequest /\ calls # << >>) =>
       /\ calls[1].api = "geo/direct"
       /\ Len(calls) = 2 => calls[2].api \in {"data/weather", "data/forecast"}
  /\ req.handler = "search" =>
       Cardinality({i \in 2..Len(calls) : calls[i].q = FallbackQueryParam(locals.country)}) <= 1

\* C5 as stated: a /search whose fallback re-query failed responds with an
\* empty result and status 200.
C5_Original ==
  ( /\ pc = "done"
    /\ req.handler = "search"
    /\ \E i \in 2..Len(replies) : replies[i].status # 200 )
  => (resp.status = 200 /\ resp.kind = "json" /\ resp.data = << >>)

\* C6 as stated: a provider reply with status 401 or 429 ends the request
\* with that status, and no further call is issued.
C6_Original ==
  \A i \in 1..Len(replies) :
    replies[i].status \in {401, 429} =>
      /\ pc = "done"
      /\ Len(calls) = i
      /\ resp.status = replies[i].status

\* C7 as stated: every request ends with a result or with a body
\* {"error": message} and a status among 400, 401, 404, 429, 500.
C7_Original ==
  pc = "done" =>
    \/ resp.kind = "json" /\ resp.status = 200
    \/ resp.kind = "error" /\ resp.status \in {400, 401, 404, 429, 500}

\* the field f of the section d is missing or no number
NotNumeric(d, f) == f \notin DOMAIN d \/ d[f].t \notin {"int", "float"}

\* a weather payload that fails validation in the words of C8
InvalidWeatherPayload(data) ==
  \/ \E f \in {"name", "sys", "main", "weather", "wind", "coord"} : f \notin DOMAIN data
  \/ NotNumeric(data.main, "temp")
  \/ NotNumeric(data.main, "feels_like")
  \/ NotNumeric(data.wind, "speed")
  \/ NotNumeric(data.coord, "lat")
  \/ NotNumeric(data.coord, "lon")
  \/ "humidity" \notin DOMAIN data.main
  \/ data.main.humidity.t # "int"
  \/ data.weather.v = << >>
  \/ "description" \notin DOMAIN data.weather.v[1]

\* C8: a /weather whose payload fails validation, and a /forecast whose
\* payload has no sample list, respond with a 500 error and leave the caches
\* as they were.
C8_InvalidPayloadIs500 ==
  (pc = "done" /\ Len(replies) = 2 /\ replies[2].status = 200) =>
    /\ (req.handler = "weather" /\ InvalidWeatherPayload(replies[2].body)) =>
         /\ resp.status = 500
         /\ resp.kind = "error"
         /\ resp.data = << >>
         /\ CachesUnchanged
    /\ (req.handler = "forecast" /\ "list" \notin DOMAIN replies[2].body) =>
         /\ resp.status = 500
         /\ resp.kind = "error"
         /\ forecast_cache = forecast_cache0

\* a /weather has received a payload whose humidity is no integer
C8_Witness ==
  /\ pc = "done"
  /\ req.handler = "weather"
  /\ Len(replies) = 2
  /\ replies[2].status = 200
  /\ "main" \in DOMAIN replies[2].body
  /\ replies[2].body.main.humidity.t = "float"
  /\ resp.status = 500

\* the geocoding call of a /weather or /forecast found no candidate
NoCandidate ==
  /\ replies # << >>
  /\ \/ replies[1].status = 404
     \/ replies[1].status = 200 /\ replies[1].shape = "list" /\ replies[1].body = << >>

\* C9: when the geocoding call of a /weather or /forecast yields no
\* candidate the request responds 404 without a second call and without a
\* cache write, and the second call is issued only after a candidate came.
C9_NoCandidateIs404 ==
  IsLocationRequest =>
    /\ NoCandidate => /\ pc = "done"
                      /\ resp.status = 404
                      /\ Len(calls) = 1
                      /\ CachesUnchanged
    /\ Len(calls) >= 2 => /\ replies[1].status = 200
                          /\ replies[1].shape = "list"
                          /\ replies[1].body # << >>

\* the geocoding call of a /forecast returned an empty list
C9_Witness ==
  /\ pc = "done"
  /\ req.handler = "forecast"
  /\ Len(replies) = 1
  /\ replies[1].status = 200
  /\ replies[1].shape = "list"
  /\ replies[1].body = << >>
  /\ resp.status = 404

\* C10: a /forecast whose key forecast_<LocationKey> is alive in the cache
\* when it arrives returns the cached value without an outbound call; on a
\* miss it issues the geocoding call, then the forecast call, and on success
\* the cache holds its result under that key for the TTL, where every input
\* with the same LocationKey finds it.
C10_ForecastCache ==
  (pc = "done" /\ req.handler = "forecast" /\ LocationError(req.location) = "") =>
    LET LocationKey == normalize_location(req.location.text).key
        key == ForecastCacheKey(LocationKey)
        cached == CacheGet(forecast_cache0, key, arrived)
    IN  /\ cached # << >> => /\ calls = << >>
                             /\ resp.status = 200
                             /\ resp.kind = "json"
                             /\ resp.data = cached[1]
        /\ cached = << >> => /\ calls # << >>
                             /\ calls[1].api = "geo/direct"
                             /\ Len(calls) = 2 => calls[2].api = "data/forecast"
        /\ (cached = << >> /\ resp.kind = "json") =>
             /\ Len(calls) = 2
             /\ \E i \in 1..Len(forecast_cache) :
                  /\ forecast_cache[i].key = key
                  /\ forecast_cache[i].value = resp.data
                  /\ forecast_cache[i].expires >= arrived + TTL
                  /\ \A a \in LocationArgs :
                       ( /\ LocationError(a) = ""
                         /\ normalize_location(a.text).key = LocationKey
                         /\ now < forecast_cache[i].expires )
                       => ForecastCacheHit(
                            CacheGet(forecast_cache,
                                     ForecastCacheKey(normalize_location(a.text).key), now))

\* a /forecast for "Elva linn,EE" was served from the cache
C10_Witness ==
  /\ pc = "done"
  /\ req.handler = "forecast"
  /\ req.location.given
  /\ Contains(req.location.text, S_linn)
  /\ calls = << >>
  /\ resp.status = 200

\* C11: a /weather request leaves both caches as they were, and when its
\* location passes validation it issues the geocoding call first, whatever
\* the caches hold and whatever request came before.
C11_WeatherBypassesCaches ==
  req.handler = "weather" =>
    /\ CachesUnchanged
    /\ LocationError(req.location) = "" =>
         /\ calls # << >>
         /\ calls[1] = [api |-> "geo/direct", q |-> normalize_location(req.location.text).key]
    /\ (pc = "done" /\ resp.kind = "json") => Len(calls) = 2

\* a /weather has succeeded with two calls while the forecast cache holds a
\* live entry for its location
C11_Witness ==
  /\ pc = "done"
  /\ req.handler = "weather"
  /\ nreq = 2
  /\ resp.status = 200
  /\ Len(calls) = 2
  /\ CacheGet(forecast_cache,
              ForecastCacheKey(normalize_location(req.location.text).key), arrived) # << >>

\* C12 as stated: a /search with a country that is not empty and not a valid
\* code, or with neither query nor country, responds 200 with an empty
\* result, issues no outbound call and leaves the search cache as it was.
C12_Original ==
  req.handler = "search" =>
    LET query == Lower(Strip(req.q))
        country == Upper(Strip(req.country))
    IN  ( \/ country # << >> /\ ~validate_country(country)
          \/ query = << >> /\ country = << >> )
        => /\ pc = "done"
           /\ resp.status = 200
           /\ resp.kind = "json"
           /\ resp.data = << >>
           /\ calls = << >>
           /\ search_cache = search_cache0

\* the dedup key of an entry of a /search result
ResultKey(result) == << Lower(result.name), result.country, result.lat, result.lon >>

ResultKeys(results) == {ResultKey(results[i]) : i \in 1..Len(results)}

\* the dedup keys of the raw entries of data that have a name and a country
RawKeys(data) ==
  {DedupKey(data[i], ResolveCountry(data[i]).code) :
     i \in {j \in 1..Len(data) : /\ data[j].name # << >>
                                 /\ data[j].country # << >>
                                 /\ ResolveCountry(data[j]).ok}}

\* results is in ascending order of name
SortedByName(results) ==
  \A i \in 1..(Len(results) - 1) : ~StrLess(results[i + 1].name, results[i].name)

IsList(reply) == reply.status = 200 /\ reply.shape = "list"

\* the primary call of a /search found no match or gave an empty page
PrimaryPageEmpty ==
  \/ replies[1].status = 404
  \/ /\ IsList(replies[1])
     /\ Paginate(SortByName(MapLocations(replies[1].body, {}, << >>).results),
                 locals.page) = << >>

\* the dedup keys seen in the primary response
PrimarySeen == IF IsList(replies[1]) THEN RawKeys(replies[1].body) ELSE {}

\* C13 as stated: a /search issues the fallback re-query exactly when it has
\* no query, its country is in FALLBACK_CITIES and the primary call gave an
\* empty page or no match; the page then holds exactly the fallback entries
\* whose dedup key the primary response did not have, sorted by name.
C13_Original ==
  (req.handler = "search" /\ replies # << >>) =>
    /\ Len(calls) >= 2 <=> /\ locals.query = << >>
                           /\ locals.country \in DOMAIN FALLBACK_CITIES
                           /\ PrimaryPageEmpty
    /\ \A i \in 2..Len(calls) : calls[i].q = FallbackQueryParam(locals.country)
    /\ (pc = "done" /\ Len(replies) >= 2 /\ IsList(LastReply)) =>
         /\ resp.kind = "json"
         /\ ResultKeys(resp.data) = RawKeys(LastReply.body) \ PrimarySeen
         /\ Len(resp.data) = Cardinality(ResultKeys(resp.data))
         /\ SortedByName(resp.data)

\* the raw entry data[j] has a name and a country and the dedup key key
RawEntryHasKey(data, j, key) ==
  /\ data[j].name # << >>
  /\ data[j].country # << >>
  /\ ResolveCountry(data[j]).ok
  /\ DedupKey(data[j], ResolveCountry(data[j]).code) = key

\* C14: in every successful /search response no two entries have the same
\* (lower-cased name, resolved country, lat, lon), every entry has a name and
\* a country, and of the raw entries with one key it is the first of the
\* provider's list that is returned, with its name and region label.
C14_NoDuplicates ==
  (pc = "done" /\ req.handler = "search" /\ resp.kind = "json") =>
    /\ Len(resp.data) = Cardinality(ResultKeys(resp.data))
    /\ \A i \in 1..Len(resp.data) :
         resp.data[i].name # << >> /\ resp.data[i].country # << >>
    /\ (replies # << >> /\ IsList(LastReply)) =>
         \A i \in 1..Len(resp.data) :
           \E j \in 1..Len(LastReply.body) :
             /\ RawEntryHasKey(LastReply.body, j, ResultKey(resp.data[i]))
             /\ \A k \in 1..(j - 1) :
                  ~RawEntryHasKey(LastReply.body, k, ResultKey(resp.data[i]))
             /\ resp.data[i].name = LastReply.body[j].name
             /\ resp.data[i].state = LastReply.body[j].state

\* the provider's list held two entries for Elva that differ in the region
\* label, and the response holds one entry of that key
C14_Witness ==
  /\ pc = "done"
  /\ req.handler = "search"
  /\ resp.kind = "json"
  /\ replies # << >>
  /\ IsList(LastReply)
  /\ \E j, k \in 1..Len(LastReply.body) :
       /\ j < k
       /\ LastReply.body[j].state # LastReply.body[k].state
       /\ \E i \in 1..Len(resp.data) :
            /\ RawEntryHasKey(LastReply.body, j, ResultKey(resp.data[i]))
            /\ RawEntryHasKey(LastReply.body, k, ResultKey(resp.data[i]))

\* the smaller of two numbers
Min(a, b) == IF a < b THEN a ELSE b

\* C15: of n results the page of number page >= 1 holds the entries at the
\* positions (page-1)*100+1 .. min(page*100, n) of the results in ascending
\* order of name, in that order, and so at most 100 entries.
C15_PageIsSliceOfSorted ==
  args # << >> =>
    LET first == (args.page - 1) * 100 + 1
        last == Min(args.page * 100, args.n)
        length == IF last >= first THEN last - first + 1 ELSE 0
    IN  /\ returned = [i \in 1..length |-> Named(first + i - 1)]
        /\ Len(returned) <= 100

\* 250 results and page 2 give the results 101 to 200
C15_Witness ==
  /\ args # << >>
  /\ args.n = 250
  /\ args.page = 2
  /\ Len(returned) = 100
  /\ returned[1] = Named(101)
  /\ returned[100] = Named(200)

\* C16 as stated: under every interleaving of the handlers no handler gets
\* an entry that is written in part, and the size of the cache is the number
\* of its keys whenever no write is under way, and never above its capacity.
C16_Original ==
  /\ \A t \in Threads : threads[t].got # "unlinked"
  /\ (\A t \in Threads : threads[t].pc = "idle") =>
       fields.currsize = Cardinality(fields.data)
  /\ fields.currsize <= SEARCH_MAXSIZE

\* the places of the samples of the date in the list args
PlacesOn(date) == {k \in 1..Len(args) : DateOf(args[k].dt) = date}

\* the number of samples of the date with the description, or the icon
DescriptionCount(date, d) ==
  Cardinality({k \in PlacesOn(date) : args[k].weather[1].description = d})

IconCount(date, c) ==
  Cardinality({k \in PlacesOn(date) : args[k].weather[1].icon = c})

\* the sum of the temperatures of the samples of the date up to place k
RECURSIVE TempSum(_, _)
TempSum(date, k) ==
  IF k = 0 THEN 0
  ELSE TempSum(date, k - 1) + (IF k \in PlacesOn(date) THEN args[k].main.temp ELSE 0)

\* C17 as stated: where descriptions or icons of a date share the highest
\* count, the day has the one that comes first in the samples.
C17_Original ==
  \A i \in 1..Len(returned) :
    LET date == returned[i].date
        first(count(_, _), value(_)) ==
          value(CHOOSE k \in PlacesOn(date) :
                  /\ \A m \in PlacesOn(date) : count(date, value(m)) <= count(date, value(k))
                  /\ \A m \in PlacesOn(date) :
                       count(date, value(m)) = count(date, value(k)) => k <= m)
        description(k) == args[k].weather[1].description
        icon(k) == args[k].weather[1].icon
    IN  /\ returned[i].description = first(DescriptionCount, description)
        /\ returned[i].icon = first(IconCount, icon)

\* C18: the forecast has one day for each date of the samples, in the order
\* in which the dates first occur; the temperature of a day is the mean of
\* its samples to the nearest tenth, and its description and icon are among
\* those with the highest count on that date.
C18_ForecastDays ==
  /\ Len(returned) = Cardinality({DateOf(args[k].dt) : k \in 1..Len(args)})
  /\ \A i \in 1..Len(returned) :
       LET date == returned[i].date
           n == Cardinality(PlacesOn(date))
           gap == returned[i].temp * n - 10 * TempSum(date, Len(args))
       IN  /\ PlacesOn(date) # {}
           /\ \A j \in 1..(i - 1) :
                \E k \in PlacesOn(returned[j].date) : \A m \in PlacesOn(date) : k < m
           /\ 2 * gap <= n /\ 0 - 2 * gap <= n
           /\ \E k \in PlacesOn(date) : args[k].weather[1].description = returned[i].description
           /\ \E k \in PlacesOn(date) : args[k].weather[1].icon = returned[i].icon
           /\ \A k \in PlacesOn(date) :
                /\ DescriptionCount(date, args[k].weather[1].description)
                     <= DescriptionCount(date, returned[i].description)
                /\ IconCount(date, args[k].weather[1].icon)
                     <= IconCount(date, returned[i].icon)

\* the eight samples with temperatures 10, 12, 14, 16, 12, 10, 14, 12 give
\* one day of 12.5 degrees, clear
C18_Witness ==
  /\ args = EightSamples
  /\ Len(returned) = 1
  /\ returned[1].temp = 125
  /\ returned[1].description = "clear"

\* C19 as stated: without the rate-limiting library the application still
\* starts: applying limit("30 per minute") of the substitute limiter to the
\* handlers succeeds.
C19_Original == ~FLASK_LIMITER_AVAILABLE => pc # "TypeError"

\* neither whitespace nor a hyphen
NotSeparator(c) == ~IsSpace(c) /\ c # "-"

\* the returned key is a city of at least min characters without whitespace,
\* repeated hyphens or a hyphen at either end, a comma, and the country code
\* in upper case
IsCleanKey(key, cc, min) ==
  LET k == Len(key) - 3
      city == SubSeq(key, 1, k)
  IN  /\ k >= min
      /\ key[k + 1] = ","
      /\ SubSeq(key, k + 2, k + 3) = Upper(SelectSeq(cc, NotSeparator))
      /\ \A i \in 1..k : ~IsSpace(city[i])
      /\ \A i \in 1..(k - 1) : ~(city[i] = "-" /\ city[i + 1] = "-")
      /\ city[1] # "-" /\ city[k] # "-"

\* C20 as stated: for "<city>,<CC>" with a city of at least two characters
\* and a real country code a key is returned, never the invalid result, and
\* its city has no whitespace, no repeated hyphens and no hyphen at its ends.
C20_Original ==
  (args # << >> /\ Len(args.city) >= 2) =>
    returned.ok /\ IsCleanKey(returned.key, args.cc, 1)

\* C20: for "<city>,<CC>" with a real country code, the invalid result is
\* returned exactly when the city without the word "linn" has fewer than two
\* characters that are neither whitespace nor hyphens; otherwise the key has
\* the country code in upper case and a city of at least two characters, made
\* of those characters in their order, with no whitespace, no repeated
\* hyphens and no hyphen at its ends.
C20_NormalizedKey ==
  args # << >> =>
    LET kept == SelectSeq(RemoveLinn(args.city), NotSeparator) IN
    IF Len(kept) < 2 THEN ~returned.ok
    ELSE /\ returned.ok
         /\ IsCleanKey(returned.key, args.cc, 2)
         /\ SelectSeq(SubSeq(returned.key, 1, Len(returned.key) - 3), NotSeparator) = kept

\* "a -n,ee" gives the key "a-n,EE"
C20_Witness ==
  /\ args # << >>
  /\ args.city = << "a", " ", "-", "n" >>
  /\ args.cc = << "e", "e" >>
  /\ returned = [ok |-> TRUE, key |-> << "a", "-", "n", ",", "E", "E" >>]

\* C21 as stated: validate_location returns true exactly when the input does
\* not contain "unknown city" in any case, is one or more characters other
\* than a comma followed by a comma and exactly two upper-case letters, has a
\* city of at least two characters after trimming, and has a country code of
\* the reference table.
C21_Original ==
  returned # << >> =>
    LET n == Len(args)
        shaped == /\ n >= 4
                  /\ args[n - 2] = ","
                  /\ IsUpper(args[n - 1]) /\ IsUpper(args[n])
                  /\ \A i \in 1..(n - 3) : args[i] # ","
        city == SubSeq(args, 1, n - 3)
        trimmed == {i \in 1..(n - 3) : \E j \in 1..i : \E k \in i..(n - 3) :
                                         ~IsSpace(city[j]) /\ ~IsSpace(city[k])}
    IN  returned.ok = /\ ~Contains(Lower(args), S_unknown_city)
                      /\ shaped
                      /\ Cardinality(trimmed) >= 2
                      /\ SubSeq(args, n - 1, n) \in DOMAIN CountryTable

\* C22: a key that normalize_location returns is accepted by
\* validate_location and is normalized to itself, so that a request for the
\* key uses the forecast cache entry of the request that gave the key.
C22_KeyIsFixedPoint ==
  (args # << >> /\ returned.ok) =>
    /\ validate_location(returned.key)
    /\ normalize_location(returned.key) = returned
    /\ ForecastCacheKey(normalize_location(returned.key).key) = ForecastCacheKey(returned.key)

\* "unknown city, fI" is not itself accepted by validate_location, its key
\* "unknown-city,FI" is
C22_Witness ==
  /\ args # << >>
  /\ args.city = S_unknown_city
  /\ ~validate_location(args.city \o << "," >> \o args.cc)
  /\ returned.ok
  /\ returned.key = << "u", "n", "k", "n", "o", "w", "n", "-", "c", "i", "t", "y", ",", "F", "I" >>
  /\ validate_location(returned.key)

====
